---- MODULE Spec2Model ----
(***************************************************************************)
(* git-larder: a read-only record store on top of a git history.           *)
(*                                                                         *)
(* The state is the commit history of the repository the factory was       *)
(* opened on (a linear chain of commits, each a tree of blobs with a       *)
(* commit date), the ignore list the factory read when it was constructed, *)
(* the reply of the last call, and the client's side: the factory its      *)
(* model class is attached to, the record instance it holds and the files  *)
(* of the repository's working area.                                       *)
(* The queries (GitRecordFactory.find in its three modes, all,             *)
(* build_object_cache) are translated from src/git_larder/__init__.py; the *)
(* git commands they run (git log --follow --name-status, git log          *)
(* --diff-filter=D) are modelled by what git prints for the modelled       *)
(* history, as lines of text that the code then parses.                    *)
(***************************************************************************)
EXTENDS Integers, Sequences, FiniteSets, TLC

VARIABLES commits, _ignored, result, _factory, record, files

vars == <<commits, _ignored, result, _factory, record, files>>

(* ------------------------------ bounds -------------------------------- *)

\* Longest history explored (number of commits, the root commit included).
MaxCommits == 3

\* Most edits the client makes to a record instance between two loads.
MaxEdits == 1

\* Most files of the working area with an uncommitted modification.
MaxDirty == 1

(* ------------------------- the modelled inputs ------------------------ *)

\* __modelname__ of the record model the queries are made on.
ModelName == "test_model"

\* Record ids, in the order git sorts the entries of a tree.
IdOrder == <<"a", "b">>

Ids == {IdOrder[i] : i \in 1..Len(IdOrder)}

\* File contents: two valid JSON documents (the second carries its own "id"
\* key) and one malformed document (an unclosed object, as in the tests).
Blobs == {"{x:1}", "{x:2,id:q}", "{x:1"}

\* json.loads: the decoded object, or <<>> where json.loads raises ValueError.
json_loads(data) ==
    CASE data = "{x:1}" -> <<[x |-> "1"]>>
      [] data = "{x:2,id:q}" -> <<[x |-> "2", id |-> "q"]>>
      [] OTHER -> <<>>

\* blob.hexsha: git's fingerprint of a blob's bytes (one per content).
hexsha(data) ==
    CASE data = "{x:1}" -> "0a"
      [] data = "{x:2,id:q}" -> "1b"
      [] data = "{x:1" -> "2c"
      [] OTHER -> "ff"

\* Fingerprints a caller may ask for: those of the blobs, and one that no
\* object of the repository has.
Versions == {hexsha(d) : d \in Blobs} \cup {"3d"}

\* What a caller may pass as a version: a fingerprint, or a string that is
\* not one (not hexadecimal, or of odd length).
AskedVersions == Versions \cup {"zz", "0"}

HexDigits ==
    {"0", "1", "2", "3", "4", "5", "6", "7", "8", "9", "a", "b", "c", "d", "e", "f"}

\* The hexadecimal strings of the fingerprints' length (one byte here).
HexStrings == {h \o l : <<h, l>> \in HexDigits \X HexDigits}

\* binascii.a2b_hex(version): <<bytes>>, or <<>> where it raises
\* binascii.Error (a digit that is not hexadecimal, an odd number of digits).
a2b_hex(version) == IF version \in HexStrings THEN <<version>> ELSE <<>>

(* ------------------------------ paths --------------------------------- *)

\* "%s/%s.json" % (record_model.__modelname__, name): a path is kept as its
\* components <<directory, stem, extension>>.
_path_for_name(name) == <<ModelName, name, "json">>

Paths == {_path_for_name(n) : n \in Ids}

\* os.path.splitext(blob.name)[0]: the file name without its extension.
_id_from_blob(blob) == blob.name[1]

(* ------------------------- the git repository ------------------------- *)

\* A tree maps the paths it holds to their contents; tree[path] raises
\* KeyError for a path outside its domain.
Trees == UNION {[S -> Blobs] : S \in SUBSET Paths}

EmptyTree == [p \in {} |-> "{x:1}"]

\* repo.head.commit
HeadCommit == Len(commits)

TreeOf(c) == IF c = 0 THEN EmptyTree ELSE commits[c].tree

\* commit.parents[0] (0: the root commit has none, and is diffed against
\* the empty tree).
Parent(c) == c - 1

\* commit.tree[path], for a path the tree holds.
TreeEntry(c, path) ==
    [name |-> <<path[2], path[3]>>,
     hexsha |-> hexsha(TreeOf(c)[path]),
     data |-> TreeOf(c)[path]]

\* The model's subtree exists in a commit iff the commit holds a file in it.
HasSubtree(c) == \E p \in DOMAIN TreeOf(c) : p[1] = ModelName

\* tree.blobs of the model's subtree, in git's (sorted) order.
RECURSIVE BlobsFrom(_, _)
BlobsFrom(c, i) ==
    IF i > Len(IdOrder) THEN <<>>
    ELSE LET p == _path_for_name(IdOrder[i])
         IN (IF p \in DOMAIN TreeOf(c) THEN <<TreeEntry(c, p)>> ELSE <<>>)
            \o BlobsFrom(c, i + 1)

SubtreeBlobs(c) == BlobsFrom(c, 1)

\* The commit hash git prints (%H) and rev_parse resolves.
CommitSha(c) == <<"commit", c>>

rev_parse(sha) == sha[2]

(* --------------------------- the control file ------------------------- *)

\* A text is kept as the sequence of its pieces: words, blanks and newlines;
\* a Python str is the concatenation of its pieces.
NL == "\n"

Blank == " "

\* The names written in control files: the model's, another model's, and a
\* longer name that contains the model's.
OtherName == "other_model"

LongerName == <<ModelName, "_v2">>

\* The contents of .gitrecord_ignore explored: the model's name alone, with
\* a trailing newline, with a trailing blank, before and after another
\* name, another name alone, and a longer name that contains it.
ControlFiles ==
    {<<ModelName>>,
     <<ModelName, NL>>,
     <<ModelName, Blank>>,
     <<ModelName, NL, OtherName>>,
     <<OtherName, NL, ModelName>>,
     <<OtherName>>,
     LongerName}

\* commit.tree['.gitrecord_ignore']: <<>> where the file is absent (KeyError),
\* <<text>> where it is present. The file is kept beside the commit's tree of
\* records.
ControlFile(c) == commits[c].gitrecord_ignore

\* text.split(sep): the pieces between the separators, as a list of lines.
RECURSIVE SplitFrom(_, _, _, _)
SplitFrom(text, sep, i, line) ==
    IF i > Len(text) THEN <<line>>
    ELSE IF text[i] = sep THEN <<line>> \o SplitFrom(text, sep, i + 1, <<>>)
    ELSE SplitFrom(text, sep, i + 1, Append(line, text[i]))

split(text, sep) == SplitFrom(text, sep, 1, <<>>)

\* The pieces of a text as one str.
RECURSIVE Str(_)
Str(text) == IF text = <<>> THEN "" ELSE text[1] \o Str(Tail(text))

Whitespace == {Blank, NL}

RECURSIVE lstrip(_)
lstrip(text) ==
    IF text # <<>> /\ text[1] \in Whitespace THEN lstrip(Tail(text)) ELSE text

RECURSIVE rstrip(_)
rstrip(text) ==
    IF text # <<>> /\ text[Len(text)] \in Whitespace
    THEN rstrip(SubSeq(text, 1, Len(text) - 1))
    ELSE text

\* line.strip()
strip(text) == Str(rstrip(lstrip(text)))

\* The empty list [] and a str, as values of self._ignored.
List(items) == [type |-> "list", items |-> items, text |-> ""]

StrValue(text) == [type |-> "str", items |-> <<>>, text |-> text]

\* The loop "for line in ...split('\n'): self._ignored = line.strip()": every
\* line assigns self._ignored, the last assignment stays.
RECURSIVE IgnoredAfter(_, _, _)
IgnoredAfter(lines, i, ignored) ==
    IF i > Len(lines) THEN ignored
    ELSE IgnoredAfter(lines, i + 1, StrValue(strip(lines[i])))

\* GitRecordFactory.__init__: the value of self._ignored for the control
\* file at head (file = ControlFile(head)); [] when the file is absent.
__init__(file) ==
    IF file = <<>> THEN List(<<>>)
    ELSE IgnoredAfter(split(file[1], NL), 1, List(<<>>))

(* ----------------------------- decoding ------------------------------- *)

\* A faulty variant of dict.update: the keys the document already has are kept.
DictUpdate_KeepsOwnKeys(d, u) ==
    [k \in DOMAIN d \cup DOMAIN u |-> IF k \in DOMAIN d THEN d[k] ELSE u[k]]

\* dict.update
DictUpdate(d, u) ==
    [k \in DOMAIN d \cup DOMAIN u |-> IF k \in DOMAIN u THEN u[k] ELSE d[k]]

\* _load_record_from_blob: <<record>>, or <<>> where it raises ValueError.
_load_record_from_blob(blob, c) ==
    LET loaded == json_loads(blob.data)
    IN IF loaded = <<>> THEN <<>>
       ELSE <<DictUpdate(loaded[1],
                         [id |-> _id_from_blob(blob),
                          version |-> blob.hexsha,
                          updated_at |-> commits[c].committed_date])>>

(* ------------------- git log, as the code invokes it ------------------ *)

\* A line of git's output is kept as its tab-separated fields: a commit hash,
\* the blank line <<>>, a path, or a --name-status line <<status, path>> or
\* <<status, old path, new path>>.

\* Where the followed path appears in a commit: the files of the parent with
\* exactly the added file's content. git log --follow searches renames and
\* copies (find-copies-harder), and prefers a source the commit removed.
FollowSources(c, path) ==
    {q \in DOMAIN TreeOf(Parent(c)) : TreeOf(Parent(c))[q] = TreeOf(c)[path]}

FollowSource(c, path) ==
    LET removed == {q \in FollowSources(c, path) : q \notin DOMAIN TreeOf(c)}
    IN IF removed # {} THEN CHOOSE q \in removed : TRUE
       ELSE CHOOSE q \in FollowSources(c, path) : TRUE

\* git log --pretty=%H --follow --name-status -- path, from commit c down:
\* three lines per commit that touched the followed path, newest first.
RECURSIVE FollowLines(_, _)
FollowLines(c, path) ==
    IF c = 0 THEN <<>>
    ELSE LET cur == TreeOf(c)
             par == TreeOf(Parent(c))
         IN IF path \in DOMAIN cur /\ path \notin DOMAIN par
            THEN IF FollowSources(c, path) # {}
                 THEN LET q == FollowSource(c, path)
                          status == IF q \in DOMAIN cur THEN "C100" ELSE "R100"
                      IN <<CommitSha(c), <<>>, <<status, q, path>>>>
                         \o FollowLines(c - 1, q)
                 ELSE <<CommitSha(c), <<>>, <<"A", path>>>>
                      \o FollowLines(c - 1, path)
            ELSE IF path \in DOMAIN cur /\ cur[path] # par[path]
            THEN <<CommitSha(c), <<>>, <<"M", path>>>> \o FollowLines(c - 1, path)
            ELSE IF path \notin DOMAIN cur /\ path \in DOMAIN par
            THEN <<CommitSha(c), <<>>, <<"D", path>>>> \o FollowLines(c - 1, path)
            ELSE FollowLines(c - 1, path)

GitLogFollow(path) == FollowLines(HeadCommit, path)

\* The files a commit deleted, as git log --diff-filter=D reports them: with
\* diff.renames on (renames), a removed file whose content reappears under a
\* path the commit added is a rename, not a deletion.
DeletedIn(c, renames) ==
    {p \in DOMAIN TreeOf(Parent(c)) \ DOMAIN TreeOf(c) :
        ~(renames /\ \E q \in DOMAIN TreeOf(c) \ DOMAIN TreeOf(Parent(c)) :
                        TreeOf(c)[q] = TreeOf(Parent(c))[p])}

RECURSIVE DeletedNames(_, _, _)
DeletedNames(c, renames, i) ==
    IF i > Len(IdOrder) THEN <<>>
    ELSE (IF _path_for_name(IdOrder[i]) \in DeletedIn(c, renames)
          THEN <<_path_for_name(IdOrder[i])>> ELSE <<>>)
         \o DeletedNames(c, renames, i + 1)

\* The commit removed the control file (the log is not limited to a path, and
\* prints ".gitrecord_ignore" before the model's files).
ControlFileDeletedIn(c) ==
    c >= 2 /\ ControlFile(Parent(c)) # <<>> /\ ControlFile(c) = <<>>

\* git log --pretty=%H --name-only --diff-filter=D, from commit c down: per
\* commit that deleted files, its hash, a blank line, the deleted paths.
RECURSIVE DeletedLines(_, _)
DeletedLines(c, renames) ==
    IF c = 0 THEN <<>>
    ELSE (IF DeletedIn(c, renames) # {} \/ ControlFileDeletedIn(c)
          THEN <<CommitSha(c), <<>>>>
               \o (IF ControlFileDeletedIn(c) THEN <<<<".gitrecord_ignore">>>> ELSE <<>>)
               \o DeletedNames(c, renames, 1)
          ELSE <<>>)
         \o DeletedLines(c - 1, renames)

GitLogDeleted(renames) == DeletedLines(HeadCommit, renames)

(* ------------------------- parsing git's output ----------------------- *)

None == <<"None">>

\* chunk_into_groups_of(n, iterable): n-sized groups, the last one padded.
RECURSIVE chunk_into_groups_of(_, _)
chunk_into_groups_of(n, lines) ==
    IF lines = <<>> THEN <<>>
    ELSE IF Len(lines) >= n
    THEN <<SubSeq(lines, 1, n)>> \o chunk_into_groups_of(n, SubSeq(lines, n + 1, Len(lines)))
    ELSE <<lines \o [i \in 1..(n - Len(lines)) |-> None]>>

\* status[0:1]
FirstChar(status) ==
    CASE status = "R100" -> "R"
      [] status = "C100" -> "C"
      [] OTHER -> status

\* A faulty variant of the loop below: each entry is put in front of the
\* list, which then runs oldest first.
RECURSIVE HexshasWithPaths_OldestFirst(_, _)
HexshasWithPaths_OldestFirst(groups, i) ==
    IF i > Len(groups) THEN <<>>
    ELSE LET commit_hash == groups[i][1]
             status == FirstChar(groups[i][3][1])
             path_or_paths == Tail(groups[i][3])
         IN HexshasWithPaths_OldestFirst(groups, i + 1)
            \o (IF status \in {"A", "M"}
                THEN <<[commit |-> rev_parse(commit_hash), path |-> path_or_paths[1]]>>
                ELSE IF status \in {"C", "R"}
                THEN <<[commit |-> rev_parse(commit_hash), path |-> path_or_paths[2]]>>
                ELSE <<>>)

\* A faulty variant of the loop below: the copy and rename statuses are not
\* handled, and their commits are left out.
RECURSIVE HexshasWithPaths_NoRenames(_, _)
HexshasWithPaths_NoRenames(groups, i) ==
    IF i > Len(groups) THEN <<>>
    ELSE LET commit_hash == groups[i][1]
             status == FirstChar(groups[i][3][1])
             path_or_paths == Tail(groups[i][3])
         IN (IF status \in {"A", "M"}
             THEN <<[commit |-> rev_parse(commit_hash), path |-> path_or_paths[1]]>>
             ELSE <<>>)
            \o HexshasWithPaths_NoRenames(groups, i + 1)

\* The loop of _get_all_commits_for_path_with_paths over the groups.
RECURSIVE HexshasWithPaths(_, _)
HexshasWithPaths(groups, i) ==
    IF i > Len(groups) THEN <<>>
    ELSE LET commit_hash == groups[i][1]
             status == FirstChar(groups[i][3][1])
             path_or_paths == Tail(groups[i][3])
         IN (IF status \in {"A", "M"}
             THEN <<[commit |-> rev_parse(commit_hash), path |-> path_or_paths[1]]>>
             ELSE IF status \in {"C", "R"}
             THEN <<[commit |-> rev_parse(commit_hash), path |-> path_or_paths[2]]>>
             ELSE <<>>)
            \o HexshasWithPaths(groups, i + 1)

_get_all_commits_for_path_with_paths(path) ==
    LET raw_output == GitLogFollow(path)
    IN IF raw_output = <<>> THEN <<>>
       ELSE HexshasWithPaths(chunk_into_groups_of(3, raw_output), 1)

\* The loop of _get_last_commit_for_deleted_path over the lines.
RECURSIVE DeletedScan(_, _, _, _, _)
DeletedScan(lines, i, path, last_line, current_commit_ref) ==
    IF i > Len(lines) THEN <<>>
    ELSE IF lines[i] = <<>>
    THEN DeletedScan(lines, i + 1, path, lines[i], last_line)
    ELSE IF lines[i] = path
    THEN <<Parent(rev_parse(current_commit_ref))>>
    ELSE DeletedScan(lines, i + 1, path, lines[i], current_commit_ref)

\* _get_last_commit_for_deleted_path: <<commit>>, or <<>> for None.
_get_last_commit_for_deleted_path(path, renames) ==
    LET raw_output == GitLogDeleted(renames)
    IN IF raw_output = <<>> THEN <<>>
       ELSE DeletedScan(raw_output, 1, path, None, None)

(* ------------------------------ replies ------------------------------- *)

\* What a call does: it returns a value or raises an exception; a raised
\* NoResultFound carries last_version (<<>>: None, <<record>>: the record).
Return(v) == [exc |-> "return", val |-> v, last_version |-> <<>>]

Raise(e) == [exc |-> e, val |-> <<>>, last_version |-> <<>>]

RaiseNoResultFound(last_version) ==
    [exc |-> "NoResultFound", val |-> <<>>, last_version |-> last_version]

(* --------------------------- GitRecordFactory ------------------------- *)

\* x in a list
InList(x, list) == \E i \in 1..Len(list) : list[i] = x

\* The strs that can stand before or after a name inside a line of the
\* control files explored.
Affixes == {""} \cup {Str(<<t>>) : t \in {LongerName[i] : i \in 2..Len(LongerName)}}

\* x in a str: x is a substring of it.
InStr(x, text) == \E pre \in Affixes : \E suf \in Affixes : pre \o x \o suf = text

\* x in container, for a list and for a str.
In(x, container) ==
    IF container.type = "list" THEN InList(x, container.items)
    ELSE InStr(x, container.text)

\* A faulty variant of _verify_model_exists: the control file is read again
\* at head on every call.
_verify_model_exists_RereadsControlFile ==
    IF In(ModelName, __init__(ControlFile(HeadCommit))) THEN "ModelIgnored"
    ELSE IF ~HasSubtree(HeadCommit) THEN "NoResultFound"
    ELSE "ok"

\* A faulty variant of _verify_model_exists: the subtree is looked up in the
\* commit that was head when the factory was constructed.
_verify_model_exists_AtConstruction ==
    IF In(ModelName, _ignored) THEN "ModelIgnored"
    ELSE IF ~HasSubtree(1) THEN "NoResultFound"
    ELSE "ok"

\* _verify_model_exists: "ok", or the exception it raises.
_verify_model_exists ==
    IF In(ModelName, _ignored) THEN "ModelIgnored"
    ELSE IF ~HasSubtree(HeadCommit) THEN "NoResultFound"
    ELSE "ok"

\* test_blob.data_stream: whether the object database holds the fingerprint.
ObjectExists(version) ==
    \E c \in 1..Len(commits) : \E p \in DOMAIN TreeOf(c) :
        hexsha(TreeOf(c)[p]) = version

\* A faulty variant of the tail of find: the record found before the deletion
\* is not passed on as last_version.
FindAtCommit_NoLastVersion(commit, path, renames) ==
    IF commit = <<>> THEN Raise("AttributeError")
    ELSE LET c == commit[1]
             loaded == IF path \in DOMAIN TreeOf(c)
                       THEN _load_record_from_blob(TreeEntry(c, path), c)
                       ELSE <<>>
         IN IF loaded # <<>> THEN Return(loaded[1])
            ELSE RaiseNoResultFound(<<>>)

\* A faulty variant of the tail of find: only the KeyError of a missing path
\* is caught, and the ValueError of a malformed document escapes.
FindAtCommit_ValueErrorEscapes(commit, path, renames) ==
    IF commit = <<>> THEN Raise("AttributeError")
    ELSE LET c == commit[1]
         IN IF path \in DOMAIN TreeOf(c)
            THEN LET loaded == _load_record_from_blob(TreeEntry(c, path), c)
                 IN IF loaded # <<>> THEN Return(loaded[1]) ELSE Raise("ValueError")
            ELSE LET last_commit == _get_last_commit_for_deleted_path(path, renames)
                 IN IF last_commit # <<>>
                    THEN LET last == _load_record_from_blob(
                                         TreeEntry(last_commit[1], path), last_commit[1])
                         IN RaiseNoResultFound(last)
                    ELSE RaiseNoResultFound(<<>>)

\* The tail of find (from "try: blob = commit.tree[path]"), reached with
\* commit = head, or with whatever the by-version loop left in commit
\* (<<>>: None, when the loop ran over no commit at all).
FindAtCommit(commit, path, renames) ==
    IF commit = <<>> THEN Raise("AttributeError")
    ELSE LET c == commit[1]
             loaded == IF path \in DOMAIN TreeOf(c)
                       THEN _load_record_from_blob(TreeEntry(c, path), c)
                       ELSE <<>>
         IN IF loaded # <<>> THEN Return(loaded[1])
            ELSE LET last_commit == _get_last_commit_for_deleted_path(path, renames)
                 IN IF last_commit # <<>>
                    THEN LET last == _load_record_from_blob(
                                         TreeEntry(last_commit[1], path), last_commit[1])
                         IN IF last # <<>> THEN RaiseNoResultFound(last)
                            ELSE RaiseNoResultFound(<<>>)
                    ELSE RaiseNoResultFound(<<>>)

\* The by-version loop: the first entry whose blob has the fingerprint
\* (0: the loop ends without returning).
RECURSIVE FirstWithVersion(_, _, _)
FirstWithVersion(commits_with_paths, i, version) ==
    IF i > Len(commits_with_paths) THEN 0
    ELSE IF TreeEntry(commits_with_paths[i].commit,
                      commits_with_paths[i].path).hexsha = version
    THEN i
    ELSE FirstWithVersion(commits_with_paths, i + 1, version)

FindVersion(path, version, renames) ==
    IF a2b_hex(version) = <<>> THEN Raise("binascii.Error")
    ELSE IF ~ObjectExists(version) THEN RaiseNoResultFound(<<>>)
    ELSE LET commits_with_paths == _get_all_commits_for_path_with_paths(path)
             k == FirstWithVersion(commits_with_paths, 1, version)
         IN IF k # 0
            THEN LET loaded == _load_record_from_blob(
                                   TreeEntry(commits_with_paths[k].commit,
                                             commits_with_paths[k].path),
                                   commits_with_paths[k].commit)
                 IN IF loaded # <<>> THEN Return(loaded[1])
                    ELSE RaiseNoResultFound(<<>>)
            ELSE FindAtCommit(IF commits_with_paths = <<>> THEN <<>>
                              ELSE <<commits_with_paths[Len(commits_with_paths)].commit>>,
                              path, renames)

\* A faulty variant of the loop below: it ends at the first snapshot that
\* does not decode.
RECURSIVE LoadAll_StopAtMalformed(_, _)
LoadAll_StopAtMalformed(commits_with_paths, i) ==
    IF i > Len(commits_with_paths) THEN <<>>
    ELSE LET loaded == _load_record_from_blob(
                           TreeEntry(commits_with_paths[i].commit,
                                     commits_with_paths[i].path),
                           commits_with_paths[i].commit)
         IN IF loaded = <<>> THEN <<>>
            ELSE loaded \o LoadAll_StopAtMalformed(commits_with_paths, i + 1)

\* The all_versions loop: the records that decode, in the log's order.
RECURSIVE LoadAll(_, _)
LoadAll(commits_with_paths, i) ==
    IF i > Len(commits_with_paths) THEN <<>>
    ELSE _load_record_from_blob(TreeEntry(commits_with_paths[i].commit,
                                          commits_with_paths[i].path),
                                commits_with_paths[i].commit)
         \o LoadAll(commits_with_paths, i + 1)

\* commits_with_paths[:retrieve_max], for retrieve_max >= 0
Truncate(list, n) == SubSeq(list, 1, IF n < Len(list) THEN n ELSE Len(list))

\* A faulty variant of the all_versions branch: the list is cut to
\* retrieve_max without the test that a maximum was given.
FindAllVersions_AlwaysCut(path, retrieve_max) ==
    Return(LoadAll(Truncate(_get_all_commits_for_path_with_paths(path), retrieve_max), 1))

\* A faulty variant of the all_versions branch: an empty list is reported as
\* NotFound.
FindAllVersions_EmptyIsNotFound(path, retrieve_max) ==
    LET commits_with_paths == _get_all_commits_for_path_with_paths(path)
        records == LoadAll(IF retrieve_max # 0
                           THEN Truncate(commits_with_paths, retrieve_max)
                           ELSE commits_with_paths, 1)
    IN IF records = <<>> THEN RaiseNoResultFound(<<>>) ELSE Return(records)

FindAllVersions(path, retrieve_max) ==
    LET commits_with_paths == _get_all_commits_for_path_with_paths(path)
    IN Return(LoadAll(IF retrieve_max # 0
                      THEN Truncate(commits_with_paths, retrieve_max)
                      ELSE commits_with_paths, 1))

\* A faulty variant of find: the test that version and all_versions are not
\* both given is left out, and the version branch is taken.
find_NoModeCheck(name, version, all_versions, retrieve_max, renames) ==
    LET path == _path_for_name(name)
    IN IF _verify_model_exists = "ModelIgnored" THEN Raise("ModelIgnored")
       ELSE IF _verify_model_exists = "NoResultFound" THEN RaiseNoResultFound(<<>>)
       ELSE IF version # "" THEN FindVersion(path, version, renames)
       ELSE IF all_versions THEN FindAllVersions(path, retrieve_max)
       ELSE FindAtCommit(<<HeadCommit>>, path, renames)

\* GitRecordFactory.find(record_model, name, version, all_versions,
\* retrieve_max); version "" and retrieve_max 0 stand for None. renames is
\* the repository's diff.renames setting, read by git, not by the code.
find(name, version, all_versions, retrieve_max, renames) ==
    LET path == _path_for_name(name)
    IN IF _verify_model_exists = "ModelIgnored" THEN Raise("ModelIgnored")
       ELSE IF _verify_model_exists = "NoResultFound" THEN RaiseNoResultFound(<<>>)
       ELSE IF version # "" /\ all_versions THEN Raise("ValueError")
       ELSE IF version # "" THEN FindVersion(path, version, renames)
       ELSE IF all_versions THEN FindAllVersions(path, retrieve_max)
       ELSE FindAtCommit(<<HeadCommit>>, path, renames)

\* A faulty variant of the loop below: it ends at the first record that does
\* not decode.
RECURSIVE LoadBlobs_StopAtMalformed(_, _, _)
LoadBlobs_StopAtMalformed(blobs, i, c) ==
    IF i > Len(blobs) \/ _load_record_from_blob(blobs[i], c) = <<>> THEN <<>>
    ELSE _load_record_from_blob(blobs[i], c) \o LoadBlobs_StopAtMalformed(blobs, i + 1, c)

\* The loop of all() over tree.blobs: malformed records are passed over.
RECURSIVE LoadBlobs(_, _, _)
LoadBlobs(blobs, i, c) ==
    IF i > Len(blobs) THEN <<>>
    ELSE _load_record_from_blob(blobs[i], c) \o LoadBlobs(blobs, i + 1, c)

\* GitRecordFactory.all(record_model)
all ==
    IF _verify_model_exists = "ModelIgnored" THEN Raise("ModelIgnored")
    ELSE IF _verify_model_exists = "NoResultFound" THEN RaiseNoResultFound(<<>>)
    ELSE Return(LoadBlobs(SubtreeBlobs(HeadCommit), 1, HeadCommit))

\* hashlib.sha1(...).hexdigest(): a digest determined by the bytes hashed.
Sha1(bytes) == <<"sha1", bytes>>

\* A faulty variant of version_to_cache_key: the id is left out of the hash.
version_to_cache_key_VersionOnly(plan_id, version) == Sha1(version)

\* version_to_cache_key(plan_id, version): sha1 of the id followed by the
\* version (both ASCII here, so encode('utf8') leaves their bytes as written).
version_to_cache_key(plan_id, version) == Sha1(plan_id \o version)

_blob_to_cache_key(blob) == version_to_cache_key(_id_from_blob(blob), blob.hexsha)

\* {}
EmptyDict == <<>>

\* d[k] = v
DictSet(d, k, v) == [x \in DOMAIN d \cup {k} |-> IF x = k THEN v ELSE d[x]]

\* A faulty variant of d.get(k, default): the default is returned even when
\* the key is present (the cache entry is overwritten at every commit).
DictGet_Default(d, k, default) == default

\* d.get(k, default)
DictGet(d, k, default) == IF k \in DOMAIN d THEN d[k] ELSE default

\* A faulty variant of the inner loop below: a record that does not decode
\* ends the build in any commit, not only in the first one iterated.
RECURSIVE CacheBlobs_AlwaysFatal(_, _, _, _, _)
CacheBlobs_AlwaysFatal(blobs, i, c, last_commit, st) ==
    IF i > Len(blobs) \/ st.exc # "" THEN st
    ELSE LET b == blobs[i]
             cache_key == _blob_to_cache_key(b)
             id_to_ref_map == IF last_commit
                              THEN DictSet(st.id_to_ref_map, _id_from_blob(b), cache_key)
                              ELSE st.id_to_ref_map
             loaded == _load_record_from_blob(b, c)
         IN CacheBlobs_AlwaysFatal(blobs, i + 1, c, last_commit,
                IF loaded # <<>>
                THEN [cache |-> DictSet(st.cache, cache_key,
                                        DictGet(st.cache, cache_key, loaded[1])),
                      id_to_ref_map |-> id_to_ref_map,
                      exc |-> ""]
                ELSE [cache |-> st.cache,
                      id_to_ref_map |-> id_to_ref_map,
                      exc |-> "ValueError"])

\* The inner loop of build_object_cache over the blobs of one commit; st holds
\* cache, id_to_ref_map and exc ("" until the ValueError is raised).
RECURSIVE CacheBlobs(_, _, _, _, _)
CacheBlobs(blobs, i, c, last_commit, st) ==
    IF i > Len(blobs) \/ st.exc # "" THEN st
    ELSE LET b == blobs[i]
             cache_key == _blob_to_cache_key(b)
             id_to_ref_map == IF last_commit
                              THEN DictSet(st.id_to_ref_map, _id_from_blob(b), cache_key)
                              ELSE st.id_to_ref_map
             loaded == _load_record_from_blob(b, c)
         IN CacheBlobs(blobs, i + 1, c, last_commit,
                IF loaded # <<>>
                THEN [cache |-> DictSet(st.cache, cache_key,
                                        DictGet(st.cache, cache_key, loaded[1])),
                      id_to_ref_map |-> id_to_ref_map,
                      exc |-> ""]
                ELSE [cache |-> st.cache,
                      id_to_ref_map |-> id_to_ref_map,
                      exc |-> IF last_commit THEN "ValueError" ELSE ""])

\* A faulty variant of the outer loop: it ends (break) at the first commit
\* without the model's subtree instead of passing it over (continue).
RECURSIVE CacheCommits_Break(_, _, _)
CacheCommits_Break(c, last_commit, st) ==
    IF c = 0 \/ st.exc # "" THEN st
    ELSE IF ~HasSubtree(c) THEN st
    ELSE CacheCommits_Break(c - 1, FALSE,
                            CacheBlobs(SubtreeBlobs(c), 1, c, last_commit, st))

\* The outer loop over repo.iter_commits(repo.head): head first, then its
\* ancestors; a commit without the model's subtree is passed over.
RECURSIVE CacheCommits(_, _, _)
CacheCommits(c, last_commit, st) ==
    IF c = 0 \/ st.exc # "" THEN st
    ELSE IF ~HasSubtree(c) THEN CacheCommits(c - 1, last_commit, st)
    ELSE CacheCommits(c - 1, FALSE,
                      CacheBlobs(SubtreeBlobs(c), 1, c, last_commit, st))

\* GitRecordFactory.build_object_cache(record_model): returns
\* (cache, id_to_ref_map).
build_object_cache ==
    IF _verify_model_exists = "ModelIgnored" THEN Raise("ModelIgnored")
    ELSE IF _verify_model_exists = "NoResultFound" THEN RaiseNoResultFound(<<>>)
    ELSE LET st == CacheCommits(HeadCommit, TRUE,
                                [cache |-> EmptyDict, id_to_ref_map |-> EmptyDict,
                                 exc |-> ""])
         IN IF st.exc # "" THEN Raise(st.exc)
            ELSE Return([cache |-> st.cache, id_to_ref_map |-> st.id_to_ref_map])

\* The factory (self), as the value of a model class's _factory attribute.
Factory == <<"factory">>

\* GitRecordFactory.get_model(model_name): the new class, with its
\* __modelname__ and the _factory that attach_to_datastore(self) gave it.
get_model ==
    IF _verify_model_exists = "ModelIgnored" THEN Raise("ModelIgnored")
    ELSE IF _verify_model_exists = "NoResultFound" THEN RaiseNoResultFound(<<>>)
    ELSE Return([__modelname__ |-> ModelName, _factory |-> Factory])

\* GitRecordFactory.get_version(): the head commit's hash.
get_version == Return(CommitSha(HeadCommit))

(* ------------------------------ GitRecord ----------------------------- *)

\* A faulty variant of get_factory: the factory is returned whatever the
\* class's _factory attribute holds.
get_factory_AlwaysBound == Return(Factory)

\* GitRecord.get_factory(): cls._factory, or AttributeError when the
\* attribute is missing or None.
get_factory ==
    IF _factory # None THEN Return(_factory) ELSE Raise("AttributeError")

\* "return cls.get_factory().<query>(cls, ...)": the factory's reply, or the
\* AttributeError of get_factory.
PassThrough(reply) == IF get_factory.exc = "return" THEN reply ELSE get_factory

(* -------------------------- reset and reload -------------------------- *)

\* What a step that touches the working area leaves: the exception raised
\* ("" for none) and the files.
Area(exc, area) == [exc |-> exc, files |-> area]

\* repo.index.checkout(path, force=True): the file is written as the index
\* holds it; no local change is staged, so the index is the head tree. For a
\* path the index does not hold, the library either raises CheckoutError or
\* does nothing (not_in_index_raises).
checkout(path, not_in_index_raises) ==
    IF path \in DOMAIN TreeOf(HeadCommit)
    THEN Area("", DictSet(files, path, TreeOf(HeadCommit)[path]))
    ELSE Area(IF not_in_index_raises THEN "CheckoutError" ELSE "", files)

\* repo.head.reset(None, index=True, working_tree=True): git reset --hard;
\* every tracked file is as at head, untracked files stay.
reset_hard ==
    Area("", [p \in DOMAIN TreeOf(HeadCommit) \cup DOMAIN files
                 |-> IF p \in DOMAIN TreeOf(HeadCommit)
                     THEN TreeOf(HeadCommit)[p] ELSE files[p]])

\* GitRecordFactory.reset(record): given tells whether a record was passed,
\* body is its contents. "if record:" holds for a dict that is not empty.
reset(given, body, not_in_index_raises) ==
    IF given /\ DOMAIN body # {}
    THEN IF "id" \notin DOMAIN body THEN Area("KeyError", files)
         ELSE checkout(_path_for_name(body.id), not_in_index_raises)
    ELSE reset_hard

\* What reload leaves: its reply, the instance's contents and the files.
Reloaded(reply, body, area) == [reply |-> reply, body |-> body, files |-> area]

\* GitRecord.reload(), on an instance with contents body.
reload(body, renames, not_in_index_raises) ==
    IF _factory = None THEN Reloaded(Raise("AttributeError"), body, files)
    ELSE LET done == reset(TRUE, body, not_in_index_raises)
         IN IF done.exc # "" THEN Reloaded(Raise(done.exc), body, files)
            ELSE IF "id" \notin DOMAIN body
            THEN Reloaded(Raise("KeyError"), body, done.files)
            ELSE LET found == find(body.id, "", FALSE, 0, renames)
                 IN IF found.exc = "return"
                    THEN Reloaded(Return(None), DictUpdate(EmptyDict, found.val),
                                  done.files)
                    ELSE Reloaded(found, EmptyDict, done.files)

(* ------------------------------ actions ------------------------------- *)

\* No call is in progress: the last reply, if any, was taken by the caller.
NoCall == [op |-> "none"]

\* The record instance the client holds: the id it was asked for (name), its
\* contents (body, a dict) and the number of edits made to it since it was
\* loaded; the client holds no instance at first.
NoRecord == [held |-> FALSE, name |-> "", body |-> <<>>, edits |-> 0]

Instance(name, body, edits) ==
    [held |-> TRUE, name |-> name, body |-> body, edits |-> edits]

\* The files of the working area after a commit arrives: the paths the commit
\* changed are as in the new tree, the others as they were (local
\* modifications included).
AfterCommit(area, old, new) ==
    LET Same(p) == (p \notin DOMAIN old /\ p \notin DOMAIN new)
                   \/ (p \in DOMAIN old /\ p \in DOMAIN new /\ old[p] = new[p])
    IN [p \in {q \in Paths : IF Same(q) THEN q \in DOMAIN area ELSE q \in DOMAIN new}
           |-> IF Same(p) THEN area[p] ELSE new[p]]

\* The trees a commit can leave: one file written (added or changed), one
\* file removed, or one file moved to a free path with its content.
NextTrees(tree) ==
    {DictSet(tree, p, d) : p \in Paths, d \in Blobs}
    \cup {[q \in DOMAIN tree \ {p} |-> tree[q]] : p \in DOMAIN tree}
    \cup {[r \in (DOMAIN tree \ {p}) \cup {q} |-> IF r = q THEN tree[p] ELSE tree[r]] :
             <<p, q>> \in (DOMAIN tree) \X (Paths \ DOMAIN tree)}

\* The repository when the factory is constructed on it: a root commit with
\* any tree, and no .gitrecord_ignore in it (self._ignored = []).
Init ==
    /\ \E tree \in Trees :
          /\ commits = <<[tree |-> tree, committed_date |-> 1, gitrecord_ignore |-> <<>>]>>
          /\ files = tree
    /\ _ignored = __init__(<<>>)
    /\ result = NoCall
    /\ _factory = None
    /\ record = NoRecord

\* Someone commits to the repository: the tree changes, and the commit date
\* (whole seconds) is that of the previous commit or later.
Commit ==
    /\ result = NoCall
    /\ Len(commits) < MaxCommits
    /\ \E tree \in NextTrees(commits[HeadCommit].tree) \ {commits[HeadCommit].tree} :
       \E tick \in {0, 1} :
          commits' = Append(commits,
                            [tree |-> tree,
                             committed_date |-> commits[HeadCommit].committed_date + tick,
                             gitrecord_ignore |-> ControlFile(HeadCommit)])
    /\ files' = AfterCommit(files, commits[HeadCommit].tree, commits'[Len(commits')].tree)
    /\ result' = NoCall
    /\ UNCHANGED <<_ignored, _factory, record>>

\* factory.find(model, name)
Find ==
    /\ result = NoCall
    /\ \E name \in Ids : \E renames \in BOOLEAN :
          result' = [op |-> "find", name |-> name, renames |-> renames,
                     reply |-> find(name, "", FALSE, 0, renames)]
    /\ UNCHANGED <<commits, _ignored, _factory, record, files>>

\* factory.find(model, name, version=V)
FindByVersion ==
    /\ result = NoCall
    /\ \E name \in Ids : \E version \in AskedVersions : \E renames \in BOOLEAN :
          result' = [op |-> "find_version", name |-> name, version |-> version,
                     renames |-> renames,
                     reply |-> find(name, version, FALSE, 0, renames)]
    /\ UNCHANGED <<commits, _ignored, _factory, record, files>>

\* factory.find(model, name, all_versions=True, retrieve_max=n)
FindAll ==
    /\ result = NoCall
    /\ \E name \in Ids : \E retrieve_max \in {0, 1, 2} :
          result' = [op |-> "find_all", name |-> name, retrieve_max |-> retrieve_max,
                     reply |-> find(name, "", TRUE, retrieve_max, TRUE)]
    /\ UNCHANGED <<commits, _ignored, _factory, record, files>>

\* factory.find(model, name, version=V, all_versions=True)
FindVersionAndAll ==
    /\ result = NoCall
    /\ \E name \in Ids : \E version \in AskedVersions :
          result' = [op |-> "find_version_all", name |-> name, version |-> version,
                     reply |-> find(name, version, TRUE, 0, TRUE)]
    /\ UNCHANGED <<commits, _ignored, _factory, record, files>>

\* factory.all(model)
All ==
    /\ result = NoCall
    /\ result' = [op |-> "all", reply |-> all]
    /\ UNCHANGED <<commits, _ignored, _factory, record, files>>

\* factory.build_object_cache(model)
BuildObjectCache ==
    /\ result = NoCall
    /\ result' = [op |-> "build_object_cache", reply |-> build_object_cache]
    /\ UNCHANGED <<commits, _ignored, _factory, record, files>>

\* factory.get_model(name)
GetModel ==
    /\ result = NoCall
    /\ result' = [op |-> "get_model", reply |-> get_model]
    /\ UNCHANGED <<commits, _ignored, _factory, record, files>>

\* The caller takes the reply of its call; calls are synchronous, one at a
\* time, and a commit falls between two calls.
TakeReply ==
    /\ result # NoCall
    /\ result' = NoCall
    /\ UNCHANGED <<commits, _ignored, _factory, record, files>>

Next ==
    \/ Commit
    \/ Find
    \/ FindByVersion
    \/ FindAll
    \/ FindVersionAndAll
    \/ All
    \/ BuildObjectCache
    \/ GetModel
    \/ TakeReply

Spec == Init /\ [][Next]_vars

(* ---------------- a repository with a control file -------------------- *)

\* The repository when the factory is constructed on it, with or without a
\* .gitrecord_ignore at head: the constructor reads it into self._ignored.
\* The records of the root commit are valid JSON.
InitIgnore ==
    /\ \E tree \in {t \in Trees : \A p \in DOMAIN t : json_loads(t[p]) # <<>>} :
       \E file \in {<<>>} \cup {<<text>> : text \in ControlFiles} :
          /\ commits = <<[tree |-> tree, committed_date |-> 1, gitrecord_ignore |-> file]>>
          /\ _ignored = __init__(file)
          /\ files = tree
    /\ result = NoCall
    /\ _factory = None
    /\ record = NoRecord

\* Someone commits a change of the control file: it is added, rewritten or
\* removed; the records stay.
CommitControlFile ==
    /\ result = NoCall
    /\ Len(commits) < MaxCommits
    /\ \E file \in ({<<>>} \cup {<<text>> : text \in ControlFiles}) \ {ControlFile(HeadCommit)} :
          commits' = Append(commits,
                            [tree |-> commits[HeadCommit].tree,
                             committed_date |-> commits[HeadCommit].committed_date + 1,
                             gitrecord_ignore |-> file])
    /\ result' = NoCall
    /\ UNCHANGED <<_ignored, _factory, record, files>>

NextIgnore ==
    \/ Commit
    \/ CommitControlFile
    \/ GetModel
    \/ Find
    \/ All
    \/ BuildObjectCache
    \/ TakeReply

SpecIgnore == InitIgnore /\ [][NextIgnore]_vars

(* ------------------------- the model class ---------------------------- *)

\* The client keeps the class get_model returned as its model class.
TakeModel ==
    /\ result.op = "get_model"
    /\ result.reply.exc = "return"
    /\ _factory' = result.reply.val._factory
    /\ result' = NoCall
    /\ UNCHANGED <<commits, _ignored, record, files>>

\* cls.attach_to_datastore(factory)
AttachToDatastore ==
    /\ result = NoCall
    /\ _factory' = Factory
    /\ result' = [op |-> "attach_to_datastore", reply |-> Return(None)]
    /\ UNCHANGED <<commits, _ignored, record, files>>

\* cls.detach_from_datastore()
DetachFromDatastore ==
    /\ result = NoCall
    /\ _factory' = None
    /\ result' = [op |-> "detach_from_datastore", reply |-> Return(None)]
    /\ UNCHANGED <<commits, _ignored, record, files>>

\* cls.find(name)
ModelFind ==
    /\ result = NoCall
    /\ \E name \in Ids : \E renames \in BOOLEAN :
          result' = [op |-> "model_find", name |-> name, renames |-> renames,
                     reply |-> PassThrough(find(name, "", FALSE, 0, renames))]
    /\ UNCHANGED <<commits, _ignored, _factory, record, files>>

\* cls.all()
ModelAll ==
    /\ result = NoCall
    /\ result' = [op |-> "model_all", reply |-> PassThrough(all)]
    /\ UNCHANGED <<commits, _ignored, _factory, record, files>>

\* cls.build_object_cache()
ModelBuildObjectCache ==
    /\ result = NoCall
    /\ result' = [op |-> "model_build_object_cache",
                  reply |-> PassThrough(build_object_cache)]
    /\ UNCHANGED <<commits, _ignored, _factory, record, files>>

\* cls.get_version()
ModelGetVersion ==
    /\ result = NoCall
    /\ result' = [op |-> "model_get_version", reply |-> PassThrough(get_version)]
    /\ UNCHANGED <<commits, _ignored, _factory, record, files>>

NextHandle ==
    \/ Commit
    \/ GetModel
    \/ TakeModel
    \/ AttachToDatastore
    \/ DetachFromDatastore
    \/ ModelFind
    \/ ModelAll
    \/ ModelBuildObjectCache
    \/ ModelGetVersion
    \/ TakeReply

SpecHandle == Init /\ [][NextHandle]_vars

(* ------------------- record instances and the working area ------------ *)

\* The client keeps the record cls.find(name) returned.
TakeRecord ==
    /\ result.op = "model_find"
    /\ result.reply.exc = "return"
    /\ record' = Instance(result.name, result.reply.val, 0)
    /\ result' = NoCall
    /\ UNCHANGED <<commits, _ignored, _factory, files>>

\* del d[k]
DictDel(d, k) == [x \in DOMAIN d \ {k} |-> d[x]]

\* The edits a client makes to the instance it holds: a value changed, a key
\* added, a key removed, the 'id' key among them.
Edited(body) ==
    {DictSet(body, "x", "9"), DictSet(body, "y", "1")}
    \cup {DictSet(body, "id", n) : n \in Ids}
    \cup {DictDel(body, k) : k \in DOMAIN body \cap {"x", "id"}}

\* record[k] = v, del record[k]
EditRecord ==
    /\ result = NoCall
    /\ record.held
    /\ record.edits < MaxEdits
    /\ \E body \in Edited(record.body) \ {record.body} :
          record' = Instance(record.name, body, record.edits + 1)
    /\ UNCHANGED <<commits, _ignored, result, _factory, files>>

\* record.reload()
Reload ==
    /\ result = NoCall
    /\ record.held
    /\ \E renames \in BOOLEAN : \E not_in_index_raises \in BOOLEAN :
          LET done == reload(record.body, renames, not_in_index_raises)
          IN /\ result' = [op |-> "reload", before |-> record, reply |-> done.reply]
             /\ record' = Instance(record.name, done.body,
                                   IF done.reply.exc = "return" THEN 0
                                   ELSE record.edits)
             /\ files' = done.files
    /\ UNCHANGED <<commits, _ignored, _factory>>

\* The paths whose file in a working area differs from the head tree.
DirtyIn(area) ==
    {p \in Paths :
        \/ (p \in DOMAIN area) # (p \in DOMAIN TreeOf(HeadCommit))
        \/ (p \in DOMAIN area /\ area[p] # TreeOf(HeadCommit)[p])}

Dirty == DirtyIn(files)

\* Someone edits the working area without committing: a file is written or
\* removed.
EditFile ==
    /\ result = NoCall
    /\ \E area \in {DictSet(files, p, d) : p \in Paths, d \in Blobs}
                    \cup {DictDel(files, p) : p \in DOMAIN files} :
          /\ area # files
          /\ Cardinality(DirtyIn(area)) <= MaxDirty
          /\ files' = area
    /\ UNCHANGED <<commits, _ignored, result, _factory, record>>

\* factory.reset(record), with the instance the client holds
ResetRecord ==
    /\ result = NoCall
    /\ record.held
    /\ \E not_in_index_raises \in BOOLEAN :
          LET done == reset(TRUE, record.body, not_in_index_raises)
          IN /\ result' = [op |-> "reset_record", reply |-> Area(done.exc, files)]
             /\ files' = done.files
    /\ UNCHANGED <<commits, _ignored, _factory, record>>

\* factory.reset()
ResetAll ==
    /\ result = NoCall
    /\ LET done == reset(FALSE, EmptyDict, FALSE)
       IN /\ result' = [op |-> "reset", reply |-> Area(done.exc, files)]
          /\ files' = done.files
    /\ UNCHANGED <<commits, _ignored, _factory, record>>

\* The repository when the client has its model class from get_model:
\* the class is attached to the factory, the records of the root commit are
\* valid JSON.
InitRecord ==
    /\ \E tree \in {t \in Trees : \A p \in DOMAIN t : json_loads(t[p]) # <<>>} :
          /\ commits = <<[tree |-> tree, committed_date |-> 1, gitrecord_ignore |-> <<>>]>>
          /\ files = tree
    /\ _ignored = __init__(<<>>)
    /\ result = NoCall
    /\ _factory = Factory
    /\ record = NoRecord

NextRecord ==
    \/ Commit
    \/ ModelFind
    \/ TakeRecord
    \/ EditRecord
    \/ Reload
    \/ TakeReply

SpecRecord == InitRecord /\ [][NextRecord]_vars

NextWorkingArea ==
    \/ Commit
    \/ EditFile
    \/ ModelFind
    \/ TakeRecord
    \/ Reload
    \/ ResetRecord
    \/ ResetAll
    \/ Find
    \/ All
    \/ BuildObjectCache
    \/ TakeReply

SpecWorkingArea == InitRecord /\ [][NextWorkingArea]_vars

(* ------------------------ vocabulary of the claims -------------------- *)

HeadTree == TreeOf(HeadCommit)

Max(S) == CHOOSE x \in S : \A y \in S : y <= x

\* The content a commit holds at a path decodes.
ValidAt(c, path) ==
    path \in DOMAIN TreeOf(c) /\ json_loads(TreeOf(c)[path]) # <<>>

\* The commits in which a path held a fingerprint.
HeldAt(path, version) ==
    {c \in 1..Len(commits) :
        path \in DOMAIN TreeOf(c) /\ hexsha(TreeOf(c)[path]) = version}

\* The record a commit's content at a path decodes to (<<>>: malformed).
Decoded(c, path) == _load_record_from_blob(TreeEntry(c, path), c)

(* ------------------------------- C1 ----------------------------------- *)

\* C1: find(model, id, version=V) never returns a record whose 'version'
\* differs from V. The code contradicts it: when no commit of the path's log
\* holds V, find goes on to read the requested path in the oldest commit of
\* that log and returns what it finds there.
C1_FindVersionNeverMismatched ==
    (result.op = "find_version" /\ result.reply.exc = "return")
        => result.reply.val.version = result.version

(* ------------------------------- C2 ----------------------------------- *)

\* C2: when the head snapshot holds a valid JSON document at the record's
\* path, find(model, id) returns a record whose 'id' is the requested id and
\* whose 'version' is the fingerprint of the head blob at that path.
C2_FindReturnsHeadVersion ==
    (result.op = "find" /\ ValidAt(HeadCommit, _path_for_name(result.name)))
        => /\ result.reply.exc = "return"
           /\ result.reply.val.id = result.name
           /\ result.reply.val.version = hexsha(HeadTree[_path_for_name(result.name)])

\* A find of a record that was rewritten by a later commit and whose document
\* carries an "id" key of its own.
C2_Witness ==
    /\ result.op = "find"
    /\ Len(commits) >= 2
    /\ ValidAt(HeadCommit, _path_for_name(result.name))
    /\ HeadTree[_path_for_name(result.name)] = "{x:2,id:q}"
    /\ _path_for_name(result.name) \in DOMAIN TreeOf(1)
    /\ TreeOf(1)[_path_for_name(result.name)] = "{x:1}"
    /\ result.reply.exc = "return"

(* ------------------------------- C3 ----------------------------------- *)

\* The commit that removed a path now absent from head (0: the path is at
\* head, or never existed).
RemovedIn(path) ==
    IF path \notin DOMAIN HeadTree /\ (\E c \in 1..Len(commits) : path \in DOMAIN TreeOf(c))
    THEN 1 + Max({c \in 1..Len(commits) : path \in DOMAIN TreeOf(c)})
    ELSE 0

\* C3 as stated: once a commit has removed a record's path, find(model, id)
\* fails with NotFound whose last_version is the record decoded from the
\* parent of the removing commit (None if that content is malformed).
C3_DeletedEpitaphAlways ==
    (result.op = "find" /\ RemovedIn(_path_for_name(result.name)) # 0)
        => /\ result.reply.exc = "NoResultFound"
           /\ result.reply.last_version =
                  Decoded(Parent(RemovedIn(_path_for_name(result.name))),
                          _path_for_name(result.name))

\* The newest commit git's deletion log lists as deleting the path (0: none).
LastDeleting(path, renames) ==
    IF \E c \in 1..Len(commits) : path \in DeletedIn(c, renames)
    THEN Max({c \in 1..Len(commits) : path \in DeletedIn(c, renames)})
    ELSE 0

\* C3, amended: with the record's path absent from head, find(model, id)
\* fails with NotFound; if the model's subtree still exists at head and git's
\* deletion log lists the path, last_version is the record decoded from the
\* parent of the newest commit listed as deleting it, with 'id' equal to id
\* (None if that content is malformed); if the subtree no longer exists at
\* head, last_version is None.
C3_DeletedEpitaph ==
    (result.op = "find" /\ _path_for_name(result.name) \notin DOMAIN HeadTree)
        => /\ result.reply.exc = "NoResultFound"
           /\ ((HasSubtree(HeadCommit)
                /\ LastDeleting(_path_for_name(result.name), result.renames) # 0)
                 => (/\ result.reply.last_version =
                           Decoded(Parent(LastDeleting(_path_for_name(result.name),
                                                       result.renames)),
                                   _path_for_name(result.name))
                     /\ (result.reply.last_version # <<>>
                          => result.reply.last_version[1].id = result.name)))
           /\ (~HasSubtree(HeadCommit) => result.reply.last_version = <<>>)

\* A find of a deleted record that answers with the pre-deletion record.
C3_Witness ==
    /\ result.op = "find"
    /\ _path_for_name(result.name) \notin DOMAIN HeadTree
    /\ HasSubtree(HeadCommit)
    /\ LastDeleting(_path_for_name(result.name), result.renames) # 0
    /\ result.reply.exc = "NoResultFound"
    /\ result.renames
    /\ result.reply.last_version # <<>>
    /\ result.reply.last_version[1].version = "1b"

(* ------------------------------- C4 ----------------------------------- *)

\* C4: find(model, id, version=V) on an existing model fails with NotFound
\* when V is absent from the object store and when the record's path never
\* held V; it returns no record and raises nothing else. The code
\* contradicts it: with no history for the path it raises AttributeError
\* (commit is still None after the loop), and with a history it may return
\* the oldest logged commit's record.
C4_FindVersionAbsentIsNotFound ==
    (/\ result.op = "find_version"
     /\ HasSubtree(HeadCommit)
     /\ (~ObjectExists(result.version)
         \/ HeldAt(_path_for_name(result.name), result.version) = {}))
        => result.reply.exc = "NoResultFound"

(* ------------------------------- C5 ----------------------------------- *)

\* C5: the list find(model, id, all_versions=True) returns is newest first:
\* the 'updated_at' of consecutive entries never increases.
C5_AllVersionsNewestFirst ==
    (result.op = "find_all" /\ result.reply.exc = "return")
        => \A i \in 1..(Len(result.reply.val) - 1) :
              result.reply.val[i].updated_at >= result.reply.val[i + 1].updated_at

\* A list of three versions written at three different commit dates.
C5_Witness ==
    /\ result.op = "find_all"
    /\ result.reply.exc = "return"
    /\ Len(result.reply.val) = 3
    /\ result.reply.val[1].updated_at > result.reply.val[2].updated_at
    /\ result.reply.val[2].updated_at > result.reply.val[3].updated_at

(* ------------------------------- C6 ----------------------------------- *)

\* The fingerprints a path held across history.
BodiesAt(path) ==
    {hexsha(TreeOf(c)[path]) : c \in {d \in 1..Len(commits) : path \in DOMAIN TreeOf(d)}}

\* C6 as stated: with every committed content of the record valid JSON, the
\* length of find(model, id, all_versions=True) is the number of distinct
\* bodies (fingerprints) held at the record's path across history.
C6_LengthIsDistinctBodies ==
    (/\ result.op = "find_all"
     /\ result.retrieve_max = 0
     /\ result.reply.exc = "return"
     /\ \A c \in 1..Len(commits) :
           _path_for_name(result.name) \in DOMAIN TreeOf(c)
               => ValidAt(c, _path_for_name(result.name)))
        => Len(result.reply.val) = Cardinality(BodiesAt(_path_for_name(result.name)))

\* The commits that wrote the record, read off the history from commit c
\* down: a commit that changed the file's content writes it; a commit that
\* added the file writes it and, when the parent holds a file with the same
\* content (git reports a rename or a copy), the record continues as that
\* file; each write is the commit with the path written.
RECURSIVE Writes(_, _)
Writes(c, path) ==
    IF c = 0 THEN {}
    ELSE IF path \in DOMAIN TreeOf(c) /\ path \notin DOMAIN TreeOf(Parent(c))
    THEN {<<c, path>>}
         \cup Writes(c - 1, IF \E q \in DOMAIN TreeOf(Parent(c)) :
                                   TreeOf(Parent(c))[q] = TreeOf(c)[path]
                            THEN FollowSource(c, path)
                            ELSE path)
    ELSE IF path \in DOMAIN TreeOf(c) /\ TreeOf(c)[path] # TreeOf(Parent(c))[path]
    THEN {<<c, path>>} \cup Writes(c - 1, path)
    ELSE Writes(c - 1, path)

\* C6, amended: with every content written to the record valid JSON, the
\* length of the list find(model, id, all_versions=True) returns is the number of commits
\* that wrote the record (added, modified, renamed or copied its file, the
\* history being followed through renames and copies): one entry per such
\* commit, a body that was held before counted again.
C6_LengthIsWrites ==
    (/\ result.op = "find_all"
     /\ result.retrieve_max = 0
     /\ result.reply.exc = "return"
     /\ \A w \in Writes(HeadCommit, _path_for_name(result.name)) : ValidAt(w[1], w[2]))
        => Len(result.reply.val)
               = Cardinality(Writes(HeadCommit, _path_for_name(result.name)))

\* A record written three times with two distinct bodies (changed, then
\* changed back): three entries.
C6_Witness ==
    /\ result.op = "find_all"
    /\ result.retrieve_max = 0
    /\ result.reply.exc = "return"
    /\ Len(result.reply.val) = 3
    /\ Cardinality(BodiesAt(_path_for_name(result.name))) = 2
    /\ \A c \in 1..Len(commits) : ValidAt(c, _path_for_name(result.name))

(* ------------------------------- C7 ----------------------------------- *)

\* The head commit renamed old to new: it removed old and added new with
\* old's (valid) content.
HeadRenamed(old, new) ==
    /\ HeadCommit >= 2
    /\ old \in DOMAIN TreeOf(Parent(HeadCommit)) \ DOMAIN HeadTree
    /\ new \in DOMAIN HeadTree \ DOMAIN TreeOf(Parent(HeadCommit))
    /\ HeadTree[new] = TreeOf(Parent(HeadCommit))[old]
    /\ ValidAt(HeadCommit, new)

\* C7: after a commit that renames a record, find(model, old_id) fails with
\* NotFound, and find(model, new_id, all_versions=True) returns more than one
\* entry: the first read at the new path in the rename commit, followed by
\* the version read at the old path in an earlier commit.
C7_RenameSpansHistory ==
    \A old_id \in Ids : \A new_id \in Ids :
        HeadRenamed(_path_for_name(old_id), _path_for_name(new_id))
            => /\ (result.op = "find" /\ result.name = old_id)
                    => result.reply.exc = "NoResultFound"
               /\ (result.op = "find_all" /\ result.name = new_id
                   /\ result.retrieve_max = 0)
                    => /\ result.reply.exc = "return"
                       /\ Len(result.reply.val) > 1
                       /\ result.reply.val[1].version = hexsha(HeadTree[_path_for_name(new_id)])
                       /\ result.reply.val[1].updated_at = commits[HeadCommit].committed_date
                       /\ result.reply.val[2].version = result.reply.val[1].version
                       /\ result.reply.val[2].id = old_id
                       /\ \E c \in 1..(HeadCommit - 1) :
                             result.reply.val[2].updated_at = commits[c].committed_date

\* All versions of a record that was written twice under its old name and
\* then renamed.
C7_Witness ==
    /\ result.op = "find_all"
    /\ result.retrieve_max = 0
    /\ Len(commits) = 3
    /\ HeadRenamed(_path_for_name("a"), _path_for_name(result.name))
    /\ _path_for_name("a") \in DOMAIN TreeOf(1)
    /\ TreeOf(1)[_path_for_name("a")] # TreeOf(2)[_path_for_name("a")]
    /\ result.reply.exc = "return"
    /\ Len(result.reply.val) = 3

(* ------------------------------- C8 ----------------------------------- *)

\* C8: when build_object_cache(model) succeeds, for every record r that
\* all(model) returns, the cache holds at cache_key(r.id, r.version) a body
\* equal to r (updated_at included) and the id-to-latest map sends r.id to
\* that key.
C8_CacheRoundTrip ==
    (result.op = "build_object_cache" /\ result.reply.exc = "return")
        => /\ all.exc = "return"
           /\ \A i \in 1..Len(all.val) :
                 LET r == all.val[i]
                     key == version_to_cache_key(r.id, r.version)
                 IN /\ key \in DOMAIN result.reply.val.cache
                    /\ result.reply.val.cache[key] = r
                    /\ r.id \in DOMAIN result.reply.val.id_to_ref_map
                    /\ result.reply.val.id_to_ref_map[r.id] = key

\* A cache built when both records are at head, one of them unchanged since
\* an older commit made at an earlier date.
C8_Witness ==
    /\ result.op = "build_object_cache"
    /\ result.reply.exc = "return"
    /\ Len(all.val) = 2
    /\ \E p \in Paths :
          /\ p \in DOMAIN TreeOf(1)
          /\ TreeOf(1)[p] = HeadTree[p]
          /\ commits[1].committed_date < commits[HeadCommit].committed_date

(* ------------------------------- C9 ----------------------------------- *)

\* The (id, version) pairs of the decodable blobs the history holds in the
\* model's subtree.
DecodablePairs ==
    {<<n, hexsha(TreeOf(c)[_path_for_name(n)])>> :
        <<n, c>> \in {x \in Ids \X (1..Len(commits)) : ValidAt(x[2], _path_for_name(x[1]))}}

\* C9: when build_object_cache(model) succeeds, the cache's keys are exactly
\* the cache keys of the (id, version) pairs of the decodable blobs of all
\* commits, one entry per pair, and the id-to-latest map has exactly the ids
\* present at head, each sent to the key of its head value.
C9_CacheKeySet ==
    (result.op = "build_object_cache" /\ result.reply.exc = "return")
        => /\ DOMAIN result.reply.val.cache
                  = {version_to_cache_key(x[1], x[2]) : x \in DecodablePairs}
           /\ Cardinality(DOMAIN result.reply.val.cache) = Cardinality(DecodablePairs)
           /\ DOMAIN result.reply.val.id_to_ref_map
                  = {n \in Ids : _path_for_name(n) \in DOMAIN HeadTree}
           /\ \A n \in DOMAIN result.reply.val.id_to_ref_map :
                 result.reply.val.id_to_ref_map[n]
                     = version_to_cache_key(n, hexsha(HeadTree[_path_for_name(n)]))

\* A cache built over a history with a commit that has no model subtree
\* between two that have one.
C9_Witness ==
    /\ result.op = "build_object_cache"
    /\ result.reply.exc = "return"
    /\ Len(commits) = 3
    /\ ~HasSubtree(2)
    /\ HasSubtree(1)
    /\ Cardinality(DOMAIN result.reply.val.cache) = 2
    /\ Cardinality(DOMAIN result.reply.val.id_to_ref_map) = 1

(* ------------------------------- C10 ---------------------------------- *)

\* C10: for every record id and every version V its path held, the cache
\* entry at cache_key(id, V) equals, updated_at included, the record
\* find(model, id, version=V) returns. The code contradicts it: the cache
\* keeps the body decoded from the newest commit that still contains the
\* blob, find the one decoded from the commit that wrote it.
C10_CacheEqualsFindByVersion ==
    (result.op = "build_object_cache" /\ result.reply.exc = "return")
        => \A n \in Ids : \A v \in Versions :
              (/\ HeldAt(_path_for_name(n), v) # {}
               /\ find(n, v, FALSE, 0, TRUE).exc = "return")
                  => /\ version_to_cache_key(n, v) \in DOMAIN result.reply.val.cache
                     /\ result.reply.val.cache[version_to_cache_key(n, v)]
                            = find(n, v, FALSE, 0, TRUE).val

(* ------------------------------- C11 ---------------------------------- *)

\* Some record of the model's subtree at head does not decode.
MalformedAtHead == \E p \in DOMAIN HeadTree : ~ValidAt(HeadCommit, p)

\* The cache keys of the malformed contents the history holds.
MalformedKeys ==
    {version_to_cache_key(x[1], hexsha(TreeOf(x[2])[_path_for_name(x[1])])) :
        x \in {y \in Ids \X (1..Len(commits)) :
                  /\ _path_for_name(y[1]) \in DOMAIN TreeOf(y[2])
                  /\ ~ValidAt(y[2], _path_for_name(y[1]))}}

\* C11: on a model whose subtree exists at head, build_object_cache(model)
\* fails with ValueError whenever a head record is malformed JSON, and
\* succeeds whenever every head record decodes, whatever older commits hold;
\* the malformed snapshots of older commits have no entry in the cache.
C11_CacheFailsIffHeadMalformed ==
    (result.op = "build_object_cache" /\ HasSubtree(HeadCommit))
        => /\ MalformedAtHead => result.reply.exc = "ValueError"
           /\ ~MalformedAtHead
                 => /\ result.reply.exc = "return"
                    /\ DOMAIN result.reply.val.cache \cap MalformedKeys = {}

\* A cache built at a head whose records all decode, over a history in which
\* a record now at head was malformed in an older commit.
C11_Witness ==
    /\ result.op = "build_object_cache"
    /\ result.reply.exc = "return"
    /\ Len(commits) >= 2
    /\ \E p \in DOMAIN HeadTree :
          p \in DOMAIN TreeOf(1) /\ ~ValidAt(1, p) /\ ValidAt(HeadCommit, p)
    /\ Cardinality(DOMAIN HeadTree) = 2

(* ------------------------------- C12 ---------------------------------- *)

\* The ids of a list of records, in the list's order.
IdsOf(records) == [i \in 1..Len(records) |-> records[i].id]

\* The ids whose document at head decodes, in the tree's order.
RECURSIVE ValidIdsFrom(_)
ValidIdsFrom(i) ==
    IF i > Len(IdOrder) THEN <<>>
    ELSE (IF ValidAt(HeadCommit, _path_for_name(IdOrder[i])) THEN <<IdOrder[i]>> ELSE <<>>)
         \o ValidIdsFrom(i + 1)

\* C12: on a model whose subtree exists at head, all(model) does not fail
\* and returns exactly one record for every document of the subtree at head
\* that decodes, carrying 'id', 'version' (the head blob's fingerprint) and
\* 'updated_at'; the malformed documents are left out.
C12_AllSkipsMalformed ==
    (result.op = "all" /\ HasSubtree(HeadCommit))
        => /\ result.reply.exc = "return"
           /\ IdsOf(result.reply.val) = ValidIdsFrom(1)
           /\ \A i \in 1..Len(result.reply.val) :
                 /\ {"id", "version", "updated_at"} \subseteq DOMAIN result.reply.val[i]
                 /\ result.reply.val[i].version
                        = hexsha(HeadTree[_path_for_name(result.reply.val[i].id)])

\* all() at a head holding a malformed record sorted before a valid one:
\* the valid one is returned.
C12_Witness ==
    /\ result.op = "all"
    /\ _path_for_name("a") \in DOMAIN HeadTree
    /\ ~ValidAt(HeadCommit, _path_for_name("a"))
    /\ ValidAt(HeadCommit, _path_for_name("b"))
    /\ result.reply.exc = "return"
    /\ Len(result.reply.val) = 1

(* ------------------------------- C13 ---------------------------------- *)

\* The path held malformed JSON in an older commit and holds valid JSON at
\* head.
FixedAtHead(path) ==
    /\ ValidAt(HeadCommit, path)
    /\ \E c \in 1..(HeadCommit - 1) : path \in DOMAIN TreeOf(c) /\ ~ValidAt(c, path)

\* The snapshots of a record that decode: one <<version, updated_at, commit>> per
\* commit that wrote it with valid JSON.
ValidSnapshots(path) ==
    {<<hexsha(TreeOf(w[1])[w[2]]), commits[w[1]].committed_date, w[1]>> :
        w \in {x \in Writes(HeadCommit, path) : ValidAt(x[1], x[2])}}

\* C13: when a record's history holds a malformed snapshot that a later
\* commit fixed, find(model, id) returns the head value, and
\* find(model, id, all_versions=True) returns, without raising, exactly the
\* snapshots of the record that decode: one entry per commit that wrote it
\* with valid JSON, none for the malformed ones.
C13_FixedMalformedHistory ==
    ((result.op \in {"find", "find_all"}) /\ FixedAtHead(_path_for_name(result.name)))
        => /\ result.reply.exc = "return"
           /\ result.op = "find"
                 => result.reply.val.version = hexsha(HeadTree[_path_for_name(result.name)])
           /\ (result.op = "find_all" /\ result.retrieve_max = 0)
                 => /\ Len(result.reply.val)
                          = Cardinality(ValidSnapshots(_path_for_name(result.name)))
                    /\ \A s \in ValidSnapshots(_path_for_name(result.name)) :
                          \E i \in 1..Len(result.reply.val) :
                             /\ result.reply.val[i].version = s[1]
                             /\ result.reply.val[i].updated_at = s[2]

\* All versions of a record written valid, then malformed, then valid again:
\* two entries.
C13_Witness ==
    /\ result.op = "find_all"
    /\ result.retrieve_max = 0
    /\ Len(commits) = 3
    /\ FixedAtHead(_path_for_name(result.name))
    /\ ValidAt(1, _path_for_name(result.name))
    /\ _path_for_name(result.name) \in DOMAIN TreeOf(2)
    /\ ~ValidAt(2, _path_for_name(result.name))
    /\ result.reply.exc = "return"
    /\ Len(result.reply.val) = 2

(* ------------------------------- C14 ---------------------------------- *)

\* Some commit removed the path from its parent's tree.
EverRemoved(path) ==
    \E c \in 2..Len(commits) :
        path \in DOMAIN TreeOf(Parent(c)) /\ path \notin DOMAIN TreeOf(c)

\* C14: on a model whose subtree exists at head, find(model, id) fails with
\* NotFound without last_version whenever the record's path is absent from
\* head or malformed at head and no commit ever removed that path.
C14_PlainNotFound ==
    (/\ result.op = "find"
     /\ HasSubtree(HeadCommit)
     /\ ~ValidAt(HeadCommit, _path_for_name(result.name))
     /\ ~EverRemoved(_path_for_name(result.name)))
        => /\ result.reply.exc = "NoResultFound"
           /\ result.reply.last_version = <<>>

\* A find of a record whose head content is malformed, after a commit that
\* removed another record.
C14_Witness ==
    /\ result.op = "find"
    /\ _path_for_name(result.name) \in DOMAIN HeadTree
    /\ ~ValidAt(HeadCommit, _path_for_name(result.name))
    /\ ~EverRemoved(_path_for_name(result.name))
    /\ \E p \in Paths : EverRemoved(p)
    /\ result.reply.exc = "NoResultFound"

(* ------------------------------- C15 ---------------------------------- *)

\* C15: two records at head with different ids and byte-identical content
\* have the same version and different cache keys, as computed by
\* version_to_cache_key(id, version) and as stored by build_object_cache:
\* each id's key leads to the entry of that id.
C15_IdenticalContentDistinctKeys ==
    (result.op = "build_object_cache" /\ result.reply.exc = "return")
        => \A n \in Ids : \A m \in Ids \ {n} :
              (/\ _path_for_name(n) \in DOMAIN HeadTree
               /\ _path_for_name(m) \in DOMAIN HeadTree
               /\ HeadTree[_path_for_name(n)] = HeadTree[_path_for_name(m)])
                  => LET v == hexsha(HeadTree[_path_for_name(n)])
                         cache == result.reply.val.cache
                         id_to_ref_map == result.reply.val.id_to_ref_map
                     IN /\ version_to_cache_key(n, v) # version_to_cache_key(m, v)
                        /\ id_to_ref_map[n] = version_to_cache_key(n, v)
                        /\ id_to_ref_map[n] # id_to_ref_map[m]
                        /\ cache[id_to_ref_map[n]].id = n
                        /\ cache[id_to_ref_map[m]].id = m
                        /\ cache[id_to_ref_map[n]].version = cache[id_to_ref_map[m]].version

\* A cache built at a head holding two records with the same content.
C15_Witness ==
    /\ result.op = "build_object_cache"
    /\ result.reply.exc = "return"
    /\ DOMAIN HeadTree = Paths
    /\ HeadTree[_path_for_name("a")] = HeadTree[_path_for_name("b")]
    /\ Cardinality(DOMAIN result.reply.val.cache) = 2

(* ------------------------------- C16 ---------------------------------- *)

\* The control file the factory read: that of the commit that was head when
\* the factory was constructed (the root commit).
FileAtConstruction == ControlFile(1)

\* The name is a line of the control file: it stands in the text between two
\* newlines (or the ends of the text), blanks around it aside.
Listed(name, file) ==
    /\ file # <<>>
    /\ \E i \in 1..Len(file[1]) :
          /\ file[1][i] = name
          /\ i = 1 \/ file[1][i - 1] \in Whitespace
          /\ i = Len(file[1]) \/ file[1][i + 1] \in Whitespace

\* The calls that verify the model.
ModelCalls == {"get_model", "find", "all", "build_object_cache"}

\* C16: every name the control file lists, one per line, is ignored:
\* get_model, find, all and build_object_cache on a model of that name fail
\* with ModelIgnored, whatever the number of names in the file, the position
\* of the name in it, or a trailing newline. The code contradicts it: the
\* constructor keeps the last line of the file only, so a name followed by
\* another line, or by a trailing newline, is not ignored.
C16_ListedIsIgnored ==
    (result.op \in ModelCalls /\ Listed(ModelName, FileAtConstruction))
        => result.reply.exc = "ModelIgnored"

(* ------------------------------- C17 ---------------------------------- *)

\* C17: for a model that the factory does not hold as ignored and whose
\* subtree is absent from the head snapshot at the time of the call,
\* get_model, find, all and build_object_cache fail with NotFound (without
\* last_version), whether or not the subtree existed when the factory was
\* constructed.
C17_MissingSubtreeIsNotFound ==
    (/\ result.op \in ModelCalls
     /\ ~In(ModelName, _ignored)
     /\ ~HasSubtree(HeadCommit))
        => /\ result.reply.exc = "NoResultFound"
           /\ result.reply.last_version = <<>>

\* A call on a model whose subtree existed when the factory was constructed
\* and was removed by a later commit, the control file listing another name.
C17_Witness ==
    /\ result.op = "all"
    /\ FileAtConstruction = <<<<OtherName>>>>
    /\ HasSubtree(1)
    /\ ~HasSubtree(HeadCommit)
    /\ result.reply.exc = "NoResultFound"

(* ------------------------------- C18 ---------------------------------- *)

\* C18: the ignore list is fixed at construction: whatever later commits do
\* to the control file, the factory's list is the one read from the control
\* file of the construction-time head, every call reports the model as
\* ignored exactly when that list holds it, and a factory constructed
\* without a control file never reports a model as ignored.
C18_IgnoreListFixedAtConstruction ==
    /\ _ignored = __init__(FileAtConstruction)
    /\ result.op \in ModelCalls
          => /\ (result.reply.exc = "ModelIgnored")
                    = In(ModelName, __init__(FileAtConstruction))
             /\ FileAtConstruction = <<>> => result.reply.exc # "ModelIgnored"

\* A call that succeeds on a factory constructed without a control file,
\* after a commit that added one listing the model.
C18_Witness ==
    /\ result.op = "get_model"
    /\ FileAtConstruction = <<>>
    /\ ControlFile(HeadCommit) = <<<<ModelName>>>>
    /\ result.reply.exc = "return"

(* ------------------------------- C19 ---------------------------------- *)

\* C19: for every n >= 1, find(model, id, all_versions=True, max=n) returns
\* the first n entries of what find(model, id, all_versions=True) returns
\* without max (all of them if there are fewer), the skipped malformed
\* snapshots not counting against n. The code contradicts it: it cuts the
\* list of commits to n before decoding, so a malformed snapshot among the n
\* newest takes the place of an entry.
C19_MaxIsPrefix ==
    (result.op = "find_all" /\ result.retrieve_max >= 1 /\ result.reply.exc = "return")
        => result.reply.val
               = Truncate(find(result.name, "", TRUE, 0, TRUE).val, result.retrieve_max)

(* ------------------------------- C20 ---------------------------------- *)

\* C20: on a model whose subtree exists at head, find with both a version
\* and all_versions=True fails with ValueError and returns no record, for
\* every id and every version, whether or not the record or the version
\* exists.
C20_BothModesIsConfigurationError ==
    (result.op = "find_version_all" /\ HasSubtree(HeadCommit))
        => /\ result.reply.exc = "ValueError"
           /\ result.reply.val = <<>>

\* A find with both modifiers for a version the record holds at head.
C20_Witness ==
    /\ result.op = "find_version_all"
    /\ ValidAt(HeadCommit, _path_for_name(result.name))
    /\ hexsha(HeadTree[_path_for_name(result.name)]) = result.version
    /\ result.reply.exc = "ValueError"

(* ------------------------------- C23 ---------------------------------- *)

\* The commit that introduced the content a path holds at head: the newest
\* commit whose content at the path differs from its parent's.
IntroducedAtHead(path) ==
    Max({c \in 1..HeadCommit :
            /\ \A d \in c..HeadCommit :
                  path \in DOMAIN TreeOf(d) /\ TreeOf(d)[path] = HeadTree[path]
            /\ (path \notin DOMAIN TreeOf(Parent(c))
                \/ TreeOf(Parent(c))[path] # HeadTree[path])})

\* C23: the 'updated_at' of every record returned by find(model, id) and by
\* all(model) is the date of the commit that introduced that version of the
\* record (the commit that last changed its content), however many later
\* commits touched other records only. The code contradicts it: both decode
\* the head blob with the head commit, so 'updated_at' is the date of the
\* head commit.
C23_UpdatedAtIsIntroducingCommit ==
    /\ (result.op = "find" /\ result.reply.exc = "return")
          => result.reply.val.updated_at
                 = commits[IntroducedAtHead(_path_for_name(result.name))].committed_date
    /\ (result.op = "all" /\ result.reply.exc = "return")
          => \A i \in 1..Len(result.reply.val) :
                result.reply.val[i].updated_at
                    = commits[IntroducedAtHead(
                                  _path_for_name(result.reply.val[i].id))].committed_date

(* ------------------------------- C24 ---------------------------------- *)

\* C24: find(model, id, version=V) with a V that is not a well-formed
\* fingerprint (not hexadecimal, odd length) fails with NotFound on a model
\* whose subtree exists at head. The code contradicts it: the error
\* binascii.a2b_hex raises is not among those the probe catches, and reaches
\* the caller.
C24_MalformedVersionIsNotFound ==
    (/\ result.op = "find_version"
     /\ HasSubtree(HeadCommit)
     /\ result.version \notin HexStrings)
        => result.reply.exc = "NoResultFound"

(* ------------------------------- C25 ---------------------------------- *)

\* C25: every record find(model, id, all_versions=True) and
\* find(model, id, version=V) return has 'id' equal to the requested id, the
\* entries read in commits before the record was renamed to that id
\* included. The code contradicts it: 'id' is taken from the file name the
\* blob had in the commit it is read from.
C25_IdIsRequestedId ==
    /\ (result.op = "find_all" /\ result.reply.exc = "return")
          => \A i \in 1..Len(result.reply.val) : result.reply.val[i].id = result.name
    /\ (result.op = "find_version" /\ result.reply.exc = "return")
          => result.reply.val.id = result.name

(* ------------------------------- C28 ---------------------------------- *)

\* C28: a model name that is not a line of the control file and whose
\* subtree exists at head is never reported as ignored: no call on it fails
\* with ModelIgnored, even when the name is part of a listed name. The code contradicts it: the ignore list is
\* a str, and the test "name in self._ignored" holds for every substring of
\* it.
C28_UnlistedIsNotIgnored ==
    (/\ result.op \in ModelCalls
     /\ HasSubtree(HeadCommit)
     /\ ~Listed(ModelName, FileAtConstruction))
        => result.reply.exc # "ModelIgnored"

(* ------------------------------- C29 ---------------------------------- *)

\* No commit ever held the path.
NoHistory(path) == \A c \in 1..Len(commits) : path \notin DOMAIN TreeOf(c)

\* C29: on a model whose subtree exists at head,
\* find(model, id, all_versions=True) never fails with NotFound: it returns
\* a list, empty for an id whose path has no history at all, and for a
\* record deleted at head the versions written before the deletion, the
\* deleting commit contributing no entry.
C29_AllVersionsNeverNotFound ==
    (result.op = "find_all" /\ HasSubtree(HeadCommit))
        => /\ result.reply.exc = "return"
           /\ NoHistory(_path_for_name(result.name)) => result.reply.val = <<>>
           /\ (result.retrieve_max = 0 /\ RemovedIn(_path_for_name(result.name)) # 0)
                 => /\ Len(result.reply.val)
                          = Cardinality(ValidSnapshots(_path_for_name(result.name)))
                    /\ \A i \in 1..Len(result.reply.val) :
                          \E s \in ValidSnapshots(_path_for_name(result.name)) :
                             /\ s[3] < RemovedIn(_path_for_name(result.name))
                             /\ result.reply.val[i].version = s[1]
                             /\ result.reply.val[i].updated_at = s[2]

\* All versions of a record written twice and then deleted: two entries.
C29_Witness ==
    /\ result.op = "find_all"
    /\ result.retrieve_max = 0
    /\ Len(commits) = 3
    /\ HasSubtree(HeadCommit)
    /\ RemovedIn(_path_for_name(result.name)) = 3
    /\ result.reply.exc = "return"
    /\ Len(result.reply.val) = 2
    /\ result.reply.val[1].version # result.reply.val[2].version

(* ------------------------------- C21 ---------------------------------- *)

\* The queries made through the model class.
HandleCalls ==
    {"model_find", "model_all", "model_build_object_cache", "model_get_version"}

\* What the factory itself answers to the query a call made.
FactoryReply(call) ==
    CASE call.op = "model_find" -> find(call.name, "", FALSE, 0, call.renames)
      [] call.op = "model_all" -> all
      [] call.op = "model_build_object_cache" -> build_object_cache
      [] call.op = "model_get_version" -> get_version

\* C21: a model class is bound exactly between an attach_to_datastore and
\* the next detach_from_datastore: get_model returns a class already bound
\* to the factory, detach unbinds it, attach binds it, and nothing else
\* changes the binding; every query on an unbound class (find, all,
\* build_object_cache, get_version) fails with AttributeError, and every
\* query on a bound class gives what the factory answers.
C21_BoundBetweenAttachAndDetach ==
    [][/\ (result'.op = "get_model" /\ result'.reply.exc = "return")
             => result'.reply.val._factory = Factory
       /\ result'.op = "detach_from_datastore" => _factory' = None
       /\ result'.op = "attach_to_datastore" => _factory' = Factory
       /\ (result.op = "get_model" /\ _factory' # _factory)
             => (result.reply.exc = "return" /\ _factory' = Factory)
       /\ (result'.op \notin {"attach_to_datastore", "detach_from_datastore"}
           /\ result.op # "get_model")
             => _factory' = _factory
       /\ result'.op \in HandleCalls
             => result'.reply = IF _factory = None
                                THEN Raise("AttributeError")
                                ELSE FactoryReply(result')]_vars

\* A find through an unbound model class, for a record that is at head.
C21_Witness ==
    /\ result.op = "model_find"
    /\ _factory = None
    /\ ValidAt(HeadCommit, _path_for_name(result.name))
    /\ Len(commits) >= 2
    /\ result.reply.exc = "AttributeError"

(* ------------------------------- C22 ---------------------------------- *)

\* What find(model, id) returns for the head snapshot, for the id the
\* instance was loaded with.
HeadFind(name) == find(name, "", FALSE, 0, TRUE)

\* C22: for a record that exists at head, reload() after any edit of the
\* instance (a value changed, a key added or removed) succeeds and leaves the
\* instance with exactly the contents find(model, id) returns at head.
C22_ReloadDiscardsEdits ==
    (/\ result.op = "reload"
     /\ HeadFind(result.before.name).exc = "return")
    => /\ result.reply.exc = "return"
       /\ record.body = HeadFind(result.before.name).val

(* ------------------------------- C26 ---------------------------------- *)

\* C26: a reload() that fails leaves the contents of the instance exactly as
\* they were before the call.
C26_FailedReloadKeepsContents ==
    (/\ result.op = "reload"
     /\ result.reply.exc # "return")
    => record.body = result.before.body

(* ------------------------------- C27 ---------------------------------- *)

\* The file of the working area at a path: <<contents>>, or <<>> for none.
FileAt(area, p) == IF p \in DOMAIN area THEN <<area[p]>> ELSE <<>>

====
